---- MODULE Spec2Model ----
(***************************************************************************)
(* Model of scripts/vast/patch-facefusion.py.                              *)
(*                                                                         *)
(* A file's text is a sequence of tokens.  Each token stands for one of    *)
(* the literal fragments the script's regular expressions are built from   *)
(* (a landmark), for one of the fragments the replacements insert, or for  *)
(* text that contains no landmark at all ("FILL").  A regular expression   *)
(* of the script is a literal head, optionally followed by a lazy          *)
(* dot-matches-all gap (.*?) and a literal tail; re.sub is computed on the *)
(* token sequence the way Python computes it on the characters: leftmost   *)
(* match first, the lazy gap ending at the first tail after the head, the  *)
(* scan resuming after the match.                                          *)
(***************************************************************************)
EXTENDS Integers, Sequences, FiniteSets, TLC

VARIABLES argc, dirExists, caExists, coreExists, caText, coreText,
          pc, exitCode, out, fsLog, run, startCA, startCore, fired

vars == <<argc, dirExists, caExists, coreExists, caText, coreText,
          pc, exitCode, out, fsLog, run, startCA, startCore, fired>>

----------------------------------------------------------------------------
(* Bounds *)

MaxLen == 2

MaxDrift == 1

MaxCoreLen == 3

MaxRuns == 2

MaxArgc == 2

----------------------------------------------------------------------------
(* re.sub on token sequences *)

Min(S) == CHOOSE x \in S : \A y \in S : x <= y

\* lit is a sequence of token sets (a character class becomes a set with
\* several tokens); it occurs in text at position i
OccursAt(lit, text, i) ==
  /\ i >= 1
  /\ i + Len(lit) - 1 <= Len(text)
  /\ \A k \in 1..Len(lit) : text[i + k - 1] \in lit[k]

\* first position >= i where lit occurs, 0 when there is none
FindFrom(lit, text, i) ==
  LET S == {j \in i..(Len(text) - Len(lit) + 1) : OccursAt(lit, text, j)}
  IN IF S = {} THEN 0 ELSE Min(S)

\* position just after the match of  head .*? tail  that starts at i,
\* 0 when no match starts at i
MatchEnd(p, text, i) ==
  IF OccursAt(p.head, text, i)
  THEN LET j == FindFrom(p.tail, text, i + Len(p.head))
       IN IF j = 0 THEN 0 ELSE j + Len(p.tail)
  ELSE 0

RECURSIVE SubFrom(_, _, _, _)
SubFrom(p, repl, text, i) ==
  IF i > Len(text) THEN <<>>
  ELSE LET e == MatchEnd(p, text, i)
       IN IF e = 0
          THEN <<text[i]>> \o SubFrom(p, repl, text, i + 1)
          ELSE repl \o SubFrom(p, repl, text, e)

\* re.sub(pattern, replacement, text)
Sub(p, repl, text) == SubFrom(p, repl, text, 1)

\* the matches re.sub replaces, as <<first, last>> positions
RECURSIVE SpansFrom(_, _, _)
SpansFrom(p, text, i) ==
  IF i > Len(text) THEN {}
  ELSE LET e == MatchEnd(p, text, i)
       IN IF e = 0
          THEN SpansFrom(p, text, i + 1)
          ELSE {<<i, e - 1>>} \cup SpansFrom(p, text, e)

Spans(p, text) == SpansFrom(p, text, 1)

Contains(text, toks) == \E i \in 1..Len(text) : text[i] \in toks

----------------------------------------------------------------------------
(* The seven rules of patch_content_analyser *)

Rules == 1..7

\* the header landmark of each rule's target definition
Header(i) ==
  CASE i = 1 -> "H1"     \* @lru_cache()\ndef create_static_model_set(...) -> ModelSet:
    [] i = 2 -> "PCH"    \* def pre_check() -> bool:
    [] i = 3 -> "AFH"    \* def analyse_frame(vision_frame : VisionFrame) -> bool:
    [] i = 4 -> "ASH"    \* def analyse_stream(vision_frame : VisionFrame, video_fps : Fps) -> bool:
    [] i = 5 -> "AIH"    \* @lru_cache()\ndef analyse_image(image_path : str) -> bool:
    [] i = 6 -> "AVH"    \* @lru_cache()\ndef analyse_video(...) -> bool:
    [] i = 7 -> "DNH"    \* def detect_nsfw(vision_frame : VisionFrame) -> bool:

Headers == {Header(i) : i \in Rules}

Pattern(i) ==
  CASE i = 1 -> [head |-> <<{"H1"}>>, tail |-> <<{"CL1"}>>]              \* ... .*? ^\t\}$
    [] i = 2 -> [head |-> <<{"PCH"}>>, tail |-> <<{"PCCL"}>>]            \* ... .*? return conditional_download_hashes(...) and ...
    [] i = 3 -> [head |-> <<{"AFH"}, {"AFBODY"}>>, tail |-> <<>>]        \* ...:\n\treturn detect_nsfw(vision_frame)
    [] i = 4 -> [head |-> <<{"ASH"}>>, tail |-> <<{"RETF"}>>]            \* ... .*? return False
    [] i = 5 -> [head |-> <<{"AIH"}, {"AIBODY"}>>, tail |-> <<>>]        \* ...:\n\tvision_frame = read_image(...)\n\treturn analyse_frame(...)
    [] i = 6 -> [head |-> <<{"AVH"}>>, tail |-> <<{"AVCL"}>>]            \* ... .*? return bool(rate > 10.0)
    [] i = 7 -> [head |-> <<{"DNH"}>>, tail |-> <<{"DNCL"}>>]            \* ... .*? return is_nsfw_1 and is_nsfw_2 or ...

\* MK1 = "\n\t# PATCHED: NSFW models removed\n\treturn {}"
\* MK2 = "\n\t# PATCHED: Skip NSFW model downloads\n\treturn True"
\* MK3 = "\n\t# PATCHED: NSFW check disabled\n\t"
\* MK7 = "\n\t# PATCHED: NSFW detection disabled\n\t"
\* RETF = "return False"
\* variant: the replacement of rule 1 lacks its marker comment
\* (RET0 = "\n\treturn {}")
ReplacementNoMarker(i) ==
  CASE i = 1 -> <<"H1", "RET0">>
    [] i = 2 -> <<"PCH", "MK2">>
    [] i = 3 -> <<"AFH", "MK3", "RETF">>
    [] i = 4 -> <<"ASH", "MK3", "RETF">>
    [] i = 5 -> <<"AIH", "MK3", "RETF">>
    [] i = 6 -> <<"AVH", "MK3", "RETF">>
    [] i = 7 -> <<"DNH", "MK7", "RETF">>

Replacement(i) ==
  CASE i = 1 -> <<"H1", "MK1">>
    [] i = 2 -> <<"PCH", "MK2">>
    [] i = 3 -> <<"AFH", "MK3", "RETF">>
    [] i = 4 -> <<"ASH", "MK3", "RETF">>
    [] i = 5 -> <<"AIH", "MK3", "RETF">>
    [] i = 6 -> <<"AVH", "MK3", "RETF">>
    [] i = 7 -> <<"DNH", "MK7", "RETF">>

\* content after the first n rules
RECURSIVE ApplyRules(_, _)
ApplyRules(n, text) ==
  IF n = 0 THEN text
  ELSE Sub(Pattern(n), Replacement(n), ApplyRules(n - 1, text))

\* the rules whose re.sub found a match
FiredRules(text) ==
  {i \in Rules : Spans(Pattern(i), ApplyRules(i - 1, text)) # {}}

\* variant: the file is rewritten whether or not the text changed
ShouldWriteAlways(content, original) == TRUE

\* if content == original: warn, else: write
ShouldWrite(content, original) == content # original

----------------------------------------------------------------------------
(* The substitutions of patch_core *)

\* HASH8 = "content_analyser_hash == '<8 hex digits>'"
\* HASHN = "content_analyser_hash == '<hex digits, not 8 of them>'"
\* BLOCKPRE = the two hash-computation lines, the blank line and
\*            "\treturn all(module.pre_check() for module in common_modules) and "
CorePattern1 == [head |-> <<{"HASH8"}>>, tail |-> <<>>]

CoreRepl1 == <<"BYPASSED">>     \* True  # PATCHED: Hash check bypassed

CorePattern2 == [head |-> <<{"BLOCKPRE"}, {"HASH8"}>>, tail |-> <<>>]

CoreRepl2 == <<"REMOVED">>      \* \t# PATCHED: Hash check removed\n\treturn all(...)

CorePattern3 == [head |-> <<{"HASH8", "HASHN"}>>, tail |-> <<>>]

CoreRepl3 == <<"LOOSE">>        \* True  # PATCHED

\* content after the first two substitutions
CoreStrict(text) ==
  Sub(CorePattern2, CoreRepl2, Sub(CorePattern1, CoreRepl1, text))

\* variant: the third substitution is not guarded by content == original
CoreContentUnguarded(text) ==
  Sub(CorePattern3, CoreRepl3, CoreStrict(text))

\* content after the conditional third substitution
CoreContent(text) ==
  LET c == CoreStrict(text)
  IN IF c = text THEN Sub(CorePattern3, CoreRepl3, c) ELSE c

----------------------------------------------------------------------------
(* The markers verify_patches looks for *)

\* the moderation checks, in the order of the list: name and the tokens
\* that contain the marker string
CAChecks ==
  << [name |-> "NSFW models removed",    toks |-> {"MK1"}],
     [name |-> "pre_check disabled",     toks |-> {"MK2"}],
     [name |-> "analyse_frame disabled", toks |-> {"MK3"}] >>

\* tokens that contain "# PATCHED"
PatchedToks == {"BYPASSED", "REMOVED", "LOOSE", "MK1", "MK2", "MK3", "MK7"}

CheckLine(name, passed) == IF passed THEN "ok:" \o name ELSE "FAILED:" \o name

\* the lines the loop over checks prints
RECURSIVE CheckLines(_, _, _)
CheckLines(checks, text, k) ==
  IF k > Len(checks) THEN <<>>
  ELSE <<CheckLine(checks[k].name, Contains(text, checks[k].toks))>>
       \o CheckLines(checks, text, k + 1)

\* variant: success = passed, so only the last check decides
AllPassedLastOnly(checks, text) ==
  Contains(text, checks[Len(checks)].toks)

\* success after the loop over checks
AllPassed(checks, text) ==
  \A k \in 1..Len(checks) : Contains(text, checks[k].toks)

----------------------------------------------------------------------------
(* Input files *)

SeqsUpTo(S, n) == UNION {[1..k -> S] : k \in 0..n}

CATokens == {"H1", "CL1", "PCH", "PCCL", "AFH", "AFBODY", "ASH", "RETF",
             "AIH", "AIBODY", "AVH", "AVCL", "DNH", "DNCL", "FILL"}

CoreTokens == {"HASH8", "HASHN", "BLOCKPRE", "FILL"}

\* definition i as the rule's pattern expects it
Original(i) ==
  CASE i = 1 -> <<"H1", "CL1">>
    [] i = 2 -> <<"PCH", "PCCL">>
    [] i = 3 -> <<"AFH", "AFBODY">>
    [] i = 4 -> <<"ASH", "RETF">>
    [] i = 5 -> <<"AIH", "AIBODY">>
    [] i = 6 -> <<"AVH", "AVCL">>
    [] i = 7 -> <<"DNH", "DNCL">>

\* definition i after an upstream change the rule's pattern no longer
\* matches: the closing landmark gone (gap rules) or a line inserted after
\* the header (literal rules)
Drifted(i) ==
  IF i \in {3, 5} THEN <<Header(i), "FILL", Original(i)[2]>>
  ELSE <<Header(i), "FILL">>

\* definition i with a body between its header and its closing landmark
Bodied(i) == <<Header(i), "FILL", Original(i)[2]>>

\* the shapes definition i can have in the file; for the literal rules a
\* body line is already the drifted shape
Forms(i) ==
  IF i \in {3, 5} THEN {"absent", "original", "drifted"}
  ELSE {"absent", "original", "bodied", "drifted"}

Form(i, f) ==
  CASE f = "absent" -> <<>>
    [] f = "original" -> Original(i)
    [] f = "bodied" -> Bodied(i)
    [] f = "drifted" -> Drifted(i)

RECURSIVE Assemble(_, _)
Assemble(forms, n) ==
  IF n = 0 THEN <<>> ELSE Assemble(forms, n - 1) \o Form(n, forms[n])

\* the moderation file with each definition absent, in a shape its rule
\* matches, or drifted
UpstreamFiles ==
  {Assemble(forms, 7) :
     forms \in {g \in [Rules -> {"absent", "original", "bodied", "drifted"}] :
                  /\ \A i \in Rules : g[i] \in Forms(i)
                  /\ Cardinality({i \in Rules : g[i] = "drifted"}) <= MaxDrift}}

UpstreamCA == Assemble([i \in Rules |-> "original"], 7)

UpstreamCore == <<"FILL", "BLOCKPRE", "HASH8">>

CAFiles == SeqsUpTo(CATokens, MaxLen) \cup UpstreamFiles

CoreFiles == SeqsUpTo(CoreTokens, MaxCoreLen)

CABase == {UpstreamCA, <<"FILL">>}

CoreBase == {UpstreamCore, <<"FILL">>}

----------------------------------------------------------------------------
(* State machine *)

Init ==
  /\ pc = "main"
  /\ exitCode = -1
  /\ out = <<>>
  /\ fsLog = <<>>
  /\ run = 1
  /\ fired = {}
  /\ argc \in 0..MaxArgc
  /\ dirExists \in BOOLEAN
  /\ caExists \in BOOLEAN
  /\ coreExists \in BOOLEAN
  /\ (~dirExists => ~caExists /\ ~coreExists)
  /\ IF argc = 1 /\ caExists /\ coreExists
     THEN \/ caText \in CAFiles /\ coreText \in CoreBase
          \/ caText \in CABase /\ coreText \in CoreFiles
     ELSE /\ caText \in (IF caExists THEN CABase ELSE {<<>>})
          /\ coreText \in (IF coreExists THEN CoreBase ELSE {<<>>})
  /\ startCA = caText
  /\ startCore = coreText

Exit(code, msgs) ==
  /\ pc' = "done"
  /\ exitCode' = code
  /\ out' = out \o msgs

\* if len(sys.argv) != 2: usage, exit 1
main_args ==
  /\ pc = "main"
  /\ IF argc # 1
     THEN Exit(1, <<"usage">>)
     ELSE /\ pc' = "check_dir"
          /\ UNCHANGED <<exitCode, out>>
  /\ UNCHANGED <<argc, dirExists, caExists, coreExists, caText, coreText,
                 fsLog, run, startCA, startCore, fired>>

\* if not source_dir.exists(): error, exit 1
main_check_dir ==
  /\ pc = "check_dir"
  /\ fsLog' = Append(fsLog, "exists:dir")
  /\ IF ~dirExists
     THEN Exit(1, <<"err_dir">>)
     ELSE /\ pc' = "check_ca"
          /\ out' = Append(out, "patching")
          /\ UNCHANGED exitCode
  /\ UNCHANGED <<argc, dirExists, caExists, coreExists, caText, coreText,
                 run, startCA, startCore, fired>>

\* if not content_analyser.exists(): error, exit 1
main_check_ca ==
  /\ pc = "check_ca"
  /\ fsLog' = Append(fsLog, "exists:ca")
  /\ IF ~caExists
     THEN Exit(1, <<"err_ca">>)
     ELSE /\ pc' = "check_core"
          /\ UNCHANGED <<exitCode, out>>
  /\ UNCHANGED <<argc, dirExists, caExists, coreExists, caText, coreText,
                 run, startCA, startCore, fired>>

\* variant: the existence of core.py is not checked before patching
main_check_core_unchecked ==
  /\ pc = "check_core"
  /\ fsLog' = fsLog
  /\ pc' = "patch_ca"
  /\ out' = Append(out, "applying")
  /\ UNCHANGED exitCode
  /\ UNCHANGED <<argc, dirExists, caExists, coreExists, caText, coreText,
                 run, startCA, startCore, fired>>

\* if not core.exists(): error, exit 1
main_check_core ==
  /\ pc = "check_core"
  /\ fsLog' = Append(fsLog, "exists:core")
  /\ IF ~coreExists
     THEN Exit(1, <<"err_core">>)
     ELSE /\ pc' = "patch_ca"
          /\ out' = Append(out, "applying")
          /\ UNCHANGED exitCode
  /\ UNCHANGED <<argc, dirExists, caExists, coreExists, caText, coreText,
                 run, startCA, startCore, fired>>

patch_content_analyser ==
  /\ pc = "patch_ca"
  /\ LET original == caText
         content == ApplyRules(7, original)
     IN /\ fired' = FiredRules(original)
        /\ IF ShouldWrite(content, original)
           THEN /\ caText' = content
                /\ fsLog' = fsLog \o <<"read:ca", "write:ca">>
                /\ out' = Append(out, "patched_ca")
           ELSE /\ caText' = caText
                /\ fsLog' = Append(fsLog, "read:ca")
                /\ out' = Append(out, "warn_ca")
  /\ pc' = "patch_core"
  /\ UNCHANGED <<argc, dirExists, caExists, coreExists, coreText, exitCode,
                 run, startCA, startCore>>

patch_core ==
  /\ pc = "patch_core"
  /\ LET original == coreText
         content == CoreContent(original)
     IN IF ShouldWrite(content, original)
        THEN /\ coreText' = content
             /\ fsLog' = fsLog \o <<"read:core", "write:core">>
             /\ out' = Append(out, "patched_core")
        ELSE /\ coreText' = coreText
             /\ fsLog' = Append(fsLog, "read:core")
             /\ out' = Append(out, "warn_core")
  /\ pc' = "verify"
  /\ UNCHANGED <<argc, dirExists, caExists, coreExists, caText, exitCode,
                 run, startCA, startCore, fired>>

\* the lines verify_patches prints
VerifyLines ==
  (IF caExists THEN CheckLines(CAChecks, caText, 1) ELSE <<>>)
  \o (IF coreExists
      THEN <<CheckLine("Hash check bypassed", Contains(coreText, PatchedToks))>>
      ELSE <<>>)

\* the value verify_patches returns
VerifySuccess ==
  /\ caExists => AllPassed(CAChecks, caText)
  /\ coreExists => Contains(coreText, PatchedToks)

\* verify_patches and the end of main
verify_patches ==
  /\ pc = "verify"
  /\ fsLog' = fsLog
              \o <<"exists:ca">> \o (IF caExists THEN <<"read:ca">> ELSE <<>>)
              \o <<"exists:core">> \o (IF coreExists THEN <<"read:core">> ELSE <<>>)
  /\ IF VerifySuccess
     THEN Exit(0, <<"verifying">> \o VerifyLines \o <<"success">>)
     ELSE Exit(1, <<"verifying">> \o VerifyLines \o <<"failure">>)
  /\ UNCHANGED <<argc, dirExists, caExists, coreExists, caText, coreText,
                 run, startCA, startCore, fired>>

\* the operator runs the tool again on the same checkout
Rerun ==
  /\ pc = "done"
  /\ run < MaxRuns
  /\ pc' = "main"
  /\ run' = run + 1
  /\ exitCode' = -1
  /\ out' = <<>>
  /\ fsLog' = <<>>
  /\ fired' = {}
  /\ startCA' = caText
  /\ startCore' = coreText
  /\ UNCHANGED <<argc, dirExists, caExists, coreExists, caText, coreText>>

Next ==
  \/ main_args
  \/ main_check_dir
  \/ main_check_ca
  \/ main_check_core
  \/ patch_content_analyser
  \/ patch_core
  \/ verify_patches
  \/ Rerun

Spec == Init /\ [][Next]_vars

----------------------------------------------------------------------------
(* Properties *)

Count(text, tok) == Cardinality({i \in 1..Len(text) : text[i] = tok})

InLog(log, x) == \E i \in 1..Len(log) : log[i] = x

CARan == InLog(fsLog, "read:ca") /\ pc \in {"patch_core", "verify", "done"}

CoreRan == InLog(fsLog, "read:core") /\ pc \in {"verify", "done"}

Verified == pc = "done" /\ InLog(out, "verifying")

CAMarkerToks == {"MK1", "MK2", "MK3", "MK7"}

CoreMarkerToks == {"BYPASSED", "REMOVED", "LOOSE"}

\* C1: each patch function writes its file if and only if the text after
\* all of its rules differs from the text it read; otherwise the content
\* on disk is untouched and only the 'No changes made' warning is printed.
C1_WriteIffChanged ==
  /\ CARan =>
       /\ InLog(fsLog, "write:ca") <=> (ApplyRules(7, startCA) # startCA)
       /\ InLog(fsLog, "write:ca") => caText = ApplyRules(7, startCA)
       /\ ~InLog(fsLog, "write:ca") =>
            /\ caText = startCA
            /\ InLog(out, "warn_ca")
            /\ ~InLog(out, "patched_ca")
  /\ CoreRan =>
       /\ InLog(fsLog, "write:core") <=> (CoreContent(startCore) # startCore)
       /\ InLog(fsLog, "write:core") => coreText = CoreContent(startCore)
       /\ ~InLog(fsLog, "write:core") =>
            /\ coreText = startCore
            /\ InLog(out, "warn_core")
            /\ ~InLog(out, "patched_core")

\* one file left untouched with a warning, the other one written
C1_Witness ==
  /\ pc = "verify"
  /\ ~InLog(fsLog, "write:ca") /\ InLog(out, "warn_ca")
  /\ InLog(fsLog, "write:core") /\ coreText # startCore

\* C2: once both patch functions have run, main exits 0 if and only if the
\* moderation file holds the three verified markers and the integrity file
\* holds '# PATCHED', exits 1 otherwise, and all four checks are reported.
C2_ExitIffAllMarkers ==
  Verified =>
    /\ exitCode \in {0, 1}
    /\ exitCode = 0 <=>
         /\ Contains(caText, {"MK1"})
         /\ Contains(caText, {"MK2"})
         /\ Contains(caText, {"MK3"})
         /\ Contains(coreText, CoreMarkerToks)
    /\ \A n \in {"NSFW models removed", "pre_check disabled",
                 "analyse_frame disabled", "Hash check bypassed"} :
         InLog(out, "ok:" \o n) \/ InLog(out, "FAILED:" \o n)
    /\ Len(out) = 10

\* the first check fails, the later ones are still evaluated and pass
C2_Witness ==
  /\ Verified
  /\ exitCode = 1
  /\ InLog(out, "FAILED:NSFW models removed")
  /\ InLog(out, "ok:pre_check disabled")
  /\ InLog(out, "ok:analyse_frame disabled")
  /\ InLog(out, "ok:Hash check bypassed")

\* C3: running patch_content_analyser a second time leaves the text of
\* the first run, writes nothing and reports 'No changes made'.
C3_IdempotentCA ==
  (run = 2 /\ CARan) =>
    /\ caText = startCA
    /\ ~InLog(fsLog, "write:ca")
    /\ InLog(out, "warn_ca")

\* C4: running patch_core a second time leaves the text of the first run,
\* writes nothing and reports 'No changes made'.
C4_IdempotentCore ==
  (run = 2 /\ CoreRan) =>
    /\ coreText = startCore
    /\ ~InLog(fsLog, "write:core")
    /\ InLog(out, "warn_core")

AllExist == dirExists /\ caExists /\ coreExists

NoPatchEffect ==
  /\ ~InLog(fsLog, "write:ca") /\ ~InLog(fsLog, "write:core")
  /\ ~InLog(fsLog, "read:ca") /\ ~InLog(fsLog, "read:core")
  /\ caText = startCA /\ coreText = startCore
  /\ pc \notin {"patch_ca", "patch_core", "verify"}
  /\ \A m \in {"patched_ca", "warn_ca", "patched_core", "warn_core",
               "verifying"} : ~InLog(out, m)
  /\ pc = "done" => exitCode = 1

\* C5: with a wrong argument count main exits 1 before any filesystem
\* access; with the directory or either file missing it exits 1 before any
\* file is read or written and without calling a patch function or the
\* verifier.
C5_FailFast ==
  /\ argc # 1 => fsLog = <<>> /\ NoPatchEffect
  /\ (argc = 1 /\ ~AllExist) => NoPatchEffect

\* core.py is missing: exit 1, content_analyser.py still unpatched
C5_Witness ==
  /\ pc = "done" /\ exitCode = 1
  /\ argc = 1 /\ caExists /\ ~coreExists
  /\ InLog(out, "err_core")
  /\ caText = UpstreamCA

\* the tokens a match of rule i covers after its own header
Swallowed(i, text) ==
  {text[k] : k \in UNION {(sp[1] + 1)..sp[2] : sp \in Spans(Pattern(i), text)}}

\* every definition is there in original form: each rule's pattern has a
\* match, and no match reaches over the header of another definition
AllLandmarks(text) ==
  \A i \in Rules : /\ Spans(Pattern(i), text) # {}
                   /\ Swallowed(i, text) \cap Headers = {}

Unpatched ==
  /\ run = 1 /\ argc = 1 /\ AllExist
  /\ AllLandmarks(startCA) /\ ~Contains(startCA, CAMarkerToks)
  /\ Spans(CorePattern2, startCore) # {}
  /\ ~Contains(startCore, CoreMarkerToks)

\* C6: on an unpatched checkout a full run writes both files, passes every
\* check and ends with the success banner and exit status 0.
C6_EndToEnd ==
  (Unpatched /\ pc = "done") =>
    /\ exitCode = 0
    /\ InLog(fsLog, "write:ca") /\ InLog(fsLog, "write:core")
    /\ \A n \in {"NSFW models removed", "pre_check disabled",
                 "analyse_frame disabled", "Hash check bypassed"} :
         InLog(out, "ok:" \o n)
    /\ out[Len(out)] = "success"

C6_Witness ==
  /\ Unpatched /\ pc = "done" /\ exitCode = 0
  /\ caText # startCA /\ coreText # startCore

\* C7: starting from a moderation file without markers, a moderation check
\* reported as passed means the rule it names rewrote its definition; the
\* third check never passes while analyse_frame still returns
\* detect_nsfw(vision_frame).
C7_MarkerProvesRule ==
  (run = 1 /\ Verified /\ ~Contains(startCA, CAMarkerToks)) =>
    /\ InLog(out, "ok:NSFW models removed") => 1 \in fired
    /\ InLog(out, "ok:pre_check disabled") => 2 \in fired
    /\ InLog(out, "ok:analyse_frame disabled") =>
         3 \in fired /\ ~Contains(caText, {"AFBODY"})

\* C8: every rule replaces only the text of its own definition: no match
\* reaches over the header of another definition.
C8_OwnDefinitionOnly ==
  CARan =>
    \A i \in Rules : Swallowed(i, ApplyRules(i - 1, startCA)) \cap Headers = {}

\* C9: when core.py holds the whole hash-check block, patch_core replaces
\* it by '# PATCHED: Hash check removed' and the return of the pre-checks
\* alone; the hash-computation lines and the hash term are gone.
C9_BlockRemoved ==
  (run = 1 /\ CoreRan /\ Spans(CorePattern2, startCore) # {}) =>
    /\ Contains(coreText, {"REMOVED"})
    /\ Count(coreText, "BLOCKPRE") < Count(startCore, "BLOCKPRE")

\* C10: whenever patch_core writes the file, the written text contains
\* '# PATCHED' and the core check of the verifier passes; the looser third
\* pattern is applied only when the first two substitutions changed nothing.
C10_CoreChangeHasMarker ==
  /\ (CoreRan /\ InLog(fsLog, "write:core")) =>
       /\ Contains(coreText, CoreMarkerToks)
       /\ InLog(out, "patched_core")
       /\ Verified =>
            InLog(out, "ok:Hash check bypassed")
  /\ (CoreRan /\ Count(coreText, "LOOSE") > Count(startCore, "LOOSE")) =>
       CoreStrict(startCore) = startCore

\* the third pattern rewrote a hash comparison the first two left alone
C10_Witness ==
  /\ Verified /\ run = 1
  /\ InLog(fsLog, "write:core")
  /\ Contains(startCore, {"HASHN"})
  /\ Contains(coreText, {"LOOSE"})

====
